---- MODULE Spec2Model ----
(***************************************************************************)
(* pelicanconf.py: the settings module of the blog.  The module is a       *)
(* straight-line Python program: an import followed by assignment          *)
(* statements that bind upper-case names in the module namespace.  It is   *)
(* modelled by its evaluation: every statement is evaluated left to right  *)
(* on an operand stack (literals, name look-ups, '+', list/tuple/dict      *)
(* displays) and the result is bound in the namespace.                     *)
(*                                                                         *)
(* Python values: unicode strings are TLA+ strings, numbers are integers,  *)
(* True/False are booleans, None is PyNone, a tuple is a sequence, a list  *)
(* is PyList(sequence), a dict is a function from its keys.                *)
(***************************************************************************)
EXTENDS Integers, Sequences, FiniteSets, TLC

VARIABLES
    pc,      \* index in Program of the next instruction
    stack,   \* operand stack of the statement being evaluated (top last)
    ns,      \* module namespace: bound name -> value
    exc      \* "none", or the exception that stopped the module

vars == <<pc, stack, ns, exc>>

PyNone == [py |-> "None"]
PyList(s) == [list |-> s]
Feature(name) == [feature |-> name]

\* instruction constructors; l is the source line of the statement
K(l, v) == [op |-> "LOAD_CONST", arg |-> v, line |-> l]
N(l, n) == [op |-> "LOAD_NAME", arg |-> n, line |-> l]
ADD(l) == [op |-> "BINARY_ADD", arg |-> 2, line |-> l]
LIST(l, n) == [op |-> "BUILD_LIST", arg |-> n, line |-> l]
TUPLE(l, n) == [op |-> "BUILD_TUPLE", arg |-> n, line |-> l]
MAP(l, n) == [op |-> "BUILD_MAP", arg |-> n, line |-> l]
BIND(l, n) == [op |-> "STORE_NAME", arg |-> n, line |-> l]
IMPORT(l, n) == [op |-> "IMPORT_FROM", arg |-> n, line |-> l]

\* NAME = literal
Assign(l, n, v) == <<K(l, v), BIND(l, n)>>

\* NAME_SAVE_AS = NAME_URL + 'index.html'
AssignSaveAs(l, n, url) == <<N(l, url), K(l, "index.html"), ADD(l), BIND(l, n)>>

\* lines 3-24: site identity, feeds, jinja environment
SiteBlock ==
    <<IMPORT(3, "unicode_literals")>>
    \o Assign(5, "AUTHOR", "Leonardo Giordani")
    \o Assign(6, "SITENAME", "The Digital Cat")
    \o Assign(7, "SITESUBTITLE", "Adventures of a curious cat in the land of programming")
    \o Assign(8, "SITEURL", "")
    \o Assign(10, "PATH", "content")
    \o Assign(12, "TIMEZONE", "Europe/Paris")
    \o Assign(14, "DEFAULT_LANG", "en")
    \o Assign(17, "FEED_ALL_ATOM", "atom.xml")
    \o Assign(18, "TAG_FEED_ATOM", "categories/%s/atom.xml")
    \o Assign(19, "CATEGORY_FEED_ATOM", "category/%s/atom.xml")
    \o Assign(20, "TRANSLATION_FEED_ATOM", PyNone)
    \o Assign(21, "DISPLAY_FEEDS_ON_SIDEBAR", TRUE)
    \o Assign(22, "DISPLAY_TAGS_ON_SIDEBAR", FALSE)
    \o <<K(24, "extensions"), K(24, "jinja2.ext.with_"), K(24, "jinja2.ext.do"),
         LIST(24, 2), MAP(24, 1), BIND(24, "JINJA_ENVIRONMENT")>>

\* lines 26-39: URL templates and the files they are saved as
UrlBlock ==
    Assign(26, "ARTICLE_URL", "blog/{date:%Y}/{date:%m}/{date:%d}/{slug}/")
    \o AssignSaveAs(27, "ARTICLE_SAVE_AS", "ARTICLE_URL")
    \o Assign(29, "CATEGORY_URL", "category/{slug}/")
    \o AssignSaveAs(30, "CATEGORY_SAVE_AS", "CATEGORY_URL")
    \o Assign(32, "TAG_URL", "categories/{slug}/")
    \o AssignSaveAs(33, "TAG_SAVE_AS", "TAG_URL")
    \o Assign(35, "ARCHIVES_URL", "archives/")
    \o AssignSaveAs(36, "ARCHIVES_SAVE_AS", "ARCHIVES_URL")
    \o Assign(38, "AUTHOR_URL", "authors/{slug}/")
    \o AssignSaveAs(39, "AUTHOR_SAVE_AS", "AUTHOR_URL")

\* lines 41-58: plugins, sitemap, slug substitutions, social links
PluginBlock ==
    <<K(41, "../pelican-plugins"), LIST(41, 1), BIND(41, "PLUGIN_PATHS")>>
    \o <<K(42, "related_posts"), K(42, "series"), K(42, "sitemap"), K(42, "tag_cloud"),
         LIST(42, 4), BIND(42, "PLUGINS")>>
    \o Assign(44, "GOOGLE_ANALYTICS_UNIVERSAL", "UA-74364524-1")
    \o <<K(47, "format"), K(47, "xml"), MAP(46, 1), BIND(46, "SITEMAP")>>
    \o <<K(50, "c++"), K(50, "cpp"), TUPLE(50, 2), LIST(50, 1),
         BIND(50, "SLUG_SUBSTITUTIONS")>>
    \o Assign(52, "DEFAULT_DATE_FORMAT", "%d/%m/%Y")
    \o <<K(55, "Twitter"), K(55, "https://twitter.com/thedigicat"), TUPLE(55, 2),
         K(56, "Google+"), K(56, "https://plus.google.com/u/0/111444750762335924049"),
         TUPLE(56, 2),
         K(57, "GitHub"), K(57, "https://github.com/TheDigitalCatOnline"), TUPLE(57, 2),
         TUPLE(54, 3), BIND(54, "SOCIAL")>>

\* lines 60-64: pagination
PaginationBlock ==
    Assign(60, "DEFAULT_PAGINATION", 9)
    \o <<K(62, 1), K(62, "{base_name}/"), K(62, "{base_name}/index.html"), TUPLE(62, 3),
         K(63, 2), K(63, "{base_name}/page/{number}/"),
         K(63, "{base_name}/page/{number}/index.html"), TUPLE(63, 3),
         TUPLE(61, 2), BIND(61, "PAGINATION_PATTERNS")>>

\* lines 69-87: static paths, theme, markdown
ThemeBlock ==
    <<K(69, "images"), K(69, "code"), K(69, "notebooks"), K(69, "files"),
      K(69, "extra/CNAME"), LIST(69, 5), BIND(69, "STATIC_PATHS")>>
    \o <<K(70, "extra/CNAME"), K(70, "path"), K(70, "CNAME"), MAP(70, 1), MAP(70, 1),
         BIND(70, "EXTRA_PATH_METADATA")>>
    \o Assign(71, "TWITTER_USERNAME", "thedigicat")
    \o Assign(73, "THEME", "../editorial")
    \o Assign(75, "FAVICON", "images/TheDigitalCat_favicon_32.png")
    \o <<K(78, "extension_configs"),
         K(79, "markdown.extensions.codehilite"),
         K(79, "css_class"), K(79, "highlight"), MAP(79, 1),
         K(80, "markdown.extensions.extra"), MAP(80, 0),
         K(81, "markdown.extensions.meta"), MAP(81, 0),
         K(82, "markdown.extensions.toc"),
         K(83, "permalink"), K(83, TRUE), MAP(82, 1),
         MAP(78, 4),
         K(86, "output_format"), K(86, "html5"),
         MAP(77, 2), BIND(77, "MARKDOWN")>>

\* pelicanconf.py, top to bottom
Program == SiteBlock \o UrlBlock \o PluginBlock \o PaginationBlock \o ThemeBlock

End == Len(Program) + 1
Running == exc = "none" /\ pc < End
Done == exc = "none" /\ pc = End
Instr == Program[pc]

Push(v) == Append(stack, v)
Top(n) == SubSeq(stack, Len(stack) - n + 1, Len(stack))
Drop(n) == SubSeq(stack, 1, Len(stack) - n)

\* namespace[name] = value
Bind(name, value) ==
    [n \in (DOMAIN ns) \cup {name} |-> IF n = name THEN value ELSE ns[n]]

\* str + str
ConcatSwapped(a, b) == b \o a
Concat(a, b) == a \o b

\* {k1: v1, ..., kn: vn} from the operands k1, v1, ..., kn, vn; a repeated key
\* keeps its last value
MakeDict(kv) ==
    LET n == Len(kv) \div 2
        keys == {kv[2 * i - 1] : i \in 1..n}
        last(k) == CHOOSE i \in 1..n :
                      /\ kv[2 * i - 1] = k
                      /\ \A j \in 1..n : kv[2 * j - 1] = k => j <= i
    IN [k \in keys |-> kv[2 * last(k)]]

Init ==
    /\ pc = 1
    /\ stack = <<>>
    /\ ns = <<>>
    /\ exc = "none"

\* from __future__ import unicode_literals
ImportFrom ==
    /\ Running
    /\ Instr.op = "IMPORT_FROM"
    /\ ns' = Bind(Instr.arg, Feature(Instr.arg))
    /\ pc' = pc + 1
    /\ UNCHANGED <<stack, exc>>

\* a literal
LoadConst ==
    /\ Running
    /\ Instr.op = "LOAD_CONST"
    /\ stack' = Push(Instr.arg)
    /\ pc' = pc + 1
    /\ UNCHANGED <<ns, exc>>

\* a name on the right-hand side; NameError when it is not bound yet
LoadName ==
    /\ Running
    /\ Instr.op = "LOAD_NAME"
    /\ IF Instr.arg \in DOMAIN ns
       THEN /\ stack' = Push(ns[Instr.arg])
            /\ pc' = pc + 1
            /\ exc' = exc
       ELSE /\ exc' = "NameError"
            /\ UNCHANGED <<stack, pc>>
    /\ UNCHANGED ns

\* left + right
BinaryAdd ==
    /\ Running
    /\ Instr.op = "BINARY_ADD"
    /\ stack' = Append(Drop(2), Concat(Top(2)[1], Top(2)[2]))
    /\ pc' = pc + 1
    /\ UNCHANGED <<ns, exc>>

\* [a, b, ...]
BuildList ==
    /\ Running
    /\ Instr.op = "BUILD_LIST"
    /\ stack' = Append(Drop(Instr.arg), PyList(Top(Instr.arg)))
    /\ pc' = pc + 1
    /\ UNCHANGED <<ns, exc>>

\* (a, b, ...)
BuildTuple ==
    /\ Running
    /\ Instr.op = "BUILD_TUPLE"
    /\ stack' = Append(Drop(Instr.arg), Top(Instr.arg))
    /\ pc' = pc + 1
    /\ UNCHANGED <<ns, exc>>

\* {k: v, ...}
BuildMap ==
    /\ Running
    /\ Instr.op = "BUILD_MAP"
    /\ stack' = Append(Drop(2 * Instr.arg), MakeDict(Top(2 * Instr.arg)))
    /\ pc' = pc + 1
    /\ UNCHANGED <<ns, exc>>

\* NAME = <value>
StoreName ==
    /\ Running
    /\ Instr.op = "STORE_NAME"
    /\ ns' = Bind(Instr.arg, Top(1)[1])
    /\ stack' = Drop(1)
    /\ pc' = pc + 1
    /\ UNCHANGED exc

Next ==
    \/ ImportFrom
    \/ LoadConst
    \/ LoadName
    \/ BinaryAdd
    \/ BuildList
    \/ BuildTuple
    \/ BuildMap
    \/ StoreName

Spec == Init /\ [][Next]_vars

(***************************************************************************)
(* The settings the module leaves behind                                   *)
(***************************************************************************)
Char(t, i) == SubSeq(t, i, i)

\* first index >= i of t that holds one of the characters in stops, else Len(t) + 1
RECURSIVE Find(_, _, _)
Find(t, i, stops) ==
    IF i > Len(t) \/ Char(t, i) \in stops THEN i ELSE Find(t, i + 1, stops)

\* the replacement fields of a template, '{name}' or '{name:format}', by name;
\* '{{' is a literal brace
RECURSIVE FieldsFrom(_, _)
FieldsFrom(t, i) ==
    IF i > Len(t) THEN {}
    ELSE IF Char(t, i) # "{" THEN FieldsFrom(t, i + 1)
    ELSE IF i < Len(t) /\ Char(t, i + 1) = "{" THEN FieldsFrom(t, i + 2)
    ELSE LET e == Find(t, i + 1, {":", "}", "!", ".", "["})
             c == Find(t, e, {"}"})
         IN {SubSeq(t, i + 1, e - 1)} \cup FieldsFrom(t, c + 1)

Placeholders(t) == FieldsFrom(t, 1)

\* the content kinds that have a URL template, and the attributes each provides
Kinds == {"ARTICLE", "CATEGORY", "TAG", "ARCHIVES", "AUTHOR"}
KindAttributes(k) ==
    CASE k = "ARTICLE" -> {"date", "slug"}
      [] k \in {"CATEGORY", "TAG", "AUTHOR"} -> {"slug"}
      [] k = "ARCHIVES" -> {}

PatternKeys(pp) == {pp[i][1] : i \in 1..Len(pp)}
SourceTokens(ss) == {ss[i][1] : i \in 1..Len(ss)}

\* C10: pelicanconf.py runs to its end without an exception and leaves a
\* configuration that passes every check of the resolver: each URL template
\* uses only placeholders its content kind provides (article: date and slug;
\* category, tag, author: slug; archives: none), each *_SAVE_AS is the matching
\* *_URL followed by 'index.html', the pagination pattern rules have the
\* distinct page-number keys 1 and 2, and no two slug substitution pairs have
\* the same source token.
C10_ConfigAccepted ==
    /\ exc = "none"
    /\ Done =>
        /\ \A k \in Kinds :
            /\ Placeholders(ns[k \o "_URL"]) \subseteq KindAttributes(k)
            /\ Placeholders(ns[k \o "_SAVE_AS"]) \subseteq KindAttributes(k)
            /\ ns[k \o "_SAVE_AS"] = ns[k \o "_URL"] \o "index.html"
        /\ Len(ns["PAGINATION_PATTERNS"]) = 2
        /\ PatternKeys(ns["PAGINATION_PATTERNS"]) = {1, 2}
        /\ Cardinality(SourceTokens(ns["SLUG_SUBSTITUTIONS"].list))
               = Len(ns["SLUG_SUBSTITUTIONS"].list)

\* the whole module has been executed: every template, the pagination rules
\* and the substitution list are bound
C10_Witness ==
    /\ Done
    /\ Placeholders(ns["ARTICLE_URL"]) = {"date", "slug"}
    /\ ns["ARTICLE_SAVE_AS"] = "blog/{date:%Y}/{date:%m}/{date:%d}/{slug}/index.html"
    /\ Placeholders(ns["ARCHIVES_SAVE_AS"]) = {}
    /\ SourceTokens(ns["SLUG_SUBSTITUTIONS"].list) = {"c++"}
====
